---------------------------- MODULE Spec2Model ----------------------------
(***************************************************************************)
(* Model of the useSensorLogic hook (v1.4.0, multi-channel) of bleChartApp *)
(* together with the frame codec of BleProtocol.js it calls.               *)
(*                                                                         *)
(* The hook is JavaScript: every handler runs to its next `await` without  *)
(* interruption.  An action of this model is therefore one such run: the   *)
(* resolution of the transport operation a task awaits, followed by the    *)
(* synchronous code up to (and including) the invocation of the next       *)
(* awaited operation.                                                      *)
(*                                                                         *)
(* The BLE transport (react-native-ble-plx) is the environment.  connect,  *)
(* discover and write resolve or reject; a monitor reports data and errors *)
(* through its callback; cancelConnection resolves.  Characteristic values *)
(* cross the transport as base64 text: a text is the sequence of its       *)
(* symbols, each the 6-bit number it stands for, with 64 for the '='.      *)
(***************************************************************************)
EXTENDS Integers, Sequences, FiniteSets, TLC

(***************************************************************************)
(* Bounds of the model.                                                    *)
(***************************************************************************)
\* user intents (connectAndStart and stopAndDisconnect invocations) in one run
MaxIntents == 2
\* notifications delivered in one run of Spec
MaxNotifications == 1
\* notifications delivered in one run of SpecStream
StreamLen == 116
\* notifications delivered in one run of SpecFrames
MaxFrames == 2
\* bytes of the longest characteristic value drawn in SpecFrames
MaxFrameLen == 17
\* the largest mode or command code handed to an encoder in SpecEncode
MaxCode == 256
\* the longest short array, and the largest small maxSize, handed to
\* appendBuffer in SpecAppend
MaxAppendLen == 4

(***************************************************************************)
(* Program constants.                                                      *)
(***************************************************************************)
CMD_SYS_PARAM_READ == 1
CMD_SYS_SETTING_SET == 8
CMD_SCAN_START == 24
CMD_SCAN_STOP == 31
RES_SYS_UNSOLICITED == 142
RAW_ONLY == 50
\* the publisher keeps the last 100 points of a channel
WindowSize == 100
\* the default maxSize of appendBuffer
DefaultMaxSize == 100

Devices == {"d1", "d2"}
NoDevice == "null"
Tasks == 1..MaxIntents
Stops == 1..MaxIntents

VARIABLES
    status,       \* useState: the user-facing status string
    device,       \* useState: the connected peripheral, or NoDevice
    channelData,  \* useState: channel id -> published points
    dataBuffers,  \* useRef:   channel id -> points pushed since the last drain
    hs,           \* the connectAndStart invocations
    st,           \* the stopAndDisconnect invocations
    connected,    \* transport: the devices whose connection is open
    monitor,      \* transport: the notification subscription of each handshake
    pushed,       \* history: channel id -> every point pushed since the last clear
    drained,      \* history: channel id -> how many of them the publisher took
    delivered,    \* history: notifications delivered so far
    received,     \* history: the last characteristic value and what it decoded to
    encoded       \* a call of a command encoder: its arguments and its result

vars == <<status, device, channelData, dataBuffers, hs, st, connected, monitor,
          pushed, drained, delivered, received, encoded>>

(***************************************************************************)
(* Frame codec (BleProtocol.js).                                           *)
(***************************************************************************)
\* What an encoder call that threw a RangeError produced: no text.  Symbols
\* are never negative, so the value differs from every text.
RangeError == <<-1>>

\* Buffer.writeUInt8 accepts the integers 0..255 and throws for any other.
IsUInt8(value) == value \in 0..255

\* The '=' that fills the last group of a base64 text.
Pad == 64

\* buffer.toString('base64'): three bytes make four 6-bit symbols; a last
\* group of one or two bytes makes two or three symbols and is padded.
RECURSIVE Base64Encode(_)
Base64Encode(bytes) ==
    IF Len(bytes) = 0 THEN <<>>
    ELSE IF Len(bytes) = 1
    THEN <<bytes[1] \div 4, (bytes[1] % 4) * 16, Pad, Pad>>
    ELSE IF Len(bytes) = 2
    THEN <<bytes[1] \div 4, (bytes[1] % 4) * 16 + bytes[2] \div 16,
           (bytes[2] % 16) * 4, Pad>>
    ELSE <<bytes[1] \div 4, (bytes[1] % 4) * 16 + bytes[2] \div 16,
           (bytes[2] % 16) * 4 + bytes[3] \div 64, bytes[3] % 64>>
         \o Base64Encode(SubSeq(bytes, 4, Len(bytes)))

\* Buffer.from(text, 'base64'), for a text made of whole groups of four.
RECURSIVE Base64Decode(_)
Base64Decode(text) ==
    IF Len(text) < 4 THEN <<>>
    ELSE LET b1 == text[1] * 4 + text[2] \div 16
             b2 == (text[2] % 16) * 16 + text[3] \div 4
             b3 == (text[3] % 4) * 64 + text[4]
         IN  IF text[3] = Pad THEN <<b1>>
             ELSE IF text[4] = Pad THEN <<b1, b2>>
             ELSE <<b1, b2, b3>> \o Base64Decode(SubSeq(text, 5, Len(text)))

\* An encoder that leaves the simulation byte at ASCII '0'.
buildSysSettingCmdNoSim(mode, freq, isSimulated) ==
    IF IsUInt8(mode)
    THEN Base64Encode(<<CMD_SYS_SETTING_SET, mode, 50, 48, 48, 48>>)
    ELSE RangeError

\* An encoder that writes the first three characters of its freq argument.
buildSysSettingCmdUsesFreq(mode, freq, isSimulated) ==
    IF IsUInt8(mode)
    THEN Base64Encode(<<CMD_SYS_SETTING_SET, mode,
                        IF freq = "200" THEN 50 ELSE 49, 48, 48,
                        IF isSimulated THEN 49 ELSE 48>>)
    ELSE RangeError

\* Buffer.alloc(6); command, mode, "200" in ASCII, simulation flag.  The freq
\* argument is not read.
buildSysSettingCmd(mode, freq, isSimulated) ==
    IF IsUInt8(mode)
    THEN Base64Encode(<<CMD_SYS_SETTING_SET, mode, 50, 48, 48,
                        IF isSimulated THEN 49 ELSE 48>>)
    ELSE RangeError

\* An encoder that keeps the low seven bits of the command code.
buildSimpleCmdSevenBits(cmdId) ==
    IF IsUInt8(cmdId) THEN Base64Encode(<<cmdId % 128>>) ELSE RangeError

\* Buffer.alloc(1); writeUInt8(cmdId, 0); toString('base64').
buildSimpleCmd(cmdId) ==
    IF IsUInt8(cmdId) THEN Base64Encode(<<cmdId>>) ELSE RangeError

\* A decoder that reads the two bytes of a value low byte first.
parseNotificationLittleEndian(base64Data) ==
    LET buffer == Base64Decode(base64Data)
        start == IF Len(buffer) > 0 /\ buffer[1] = RES_SYS_UNSOLICITED THEN 2 ELSE 0
        RECURSIVE loop(_, _)
        loop(offset, values) ==
            IF offset + 1 < Len(buffer)
            THEN loop(offset + 2,
                      Append(values, buffer[offset + 2] * 256 + buffer[offset + 1]))
            ELSE values
    IN  loop(start, <<>>)

\* A decoder that stops after the six values of a CQ11 packet.
parseNotificationSixOnly(base64Data) ==
    LET buffer == Base64Decode(base64Data)
        start == IF Len(buffer) > 0 /\ buffer[1] = RES_SYS_UNSOLICITED THEN 2 ELSE 0
        RECURSIVE loop(_, _)
        loop(offset, values) ==
            IF offset + 1 < Len(buffer) /\ Len(values) < 6
            THEN loop(offset + 2,
                      Append(values, buffer[offset + 1] * 256 + buffer[offset + 2]))
            ELSE values
    IN  loop(start, <<>>)

\* A decoder whose loop runs while one byte is left: readUInt16BE then throws
\* on a last byte that has no partner.
parseNotificationReadsPastEnd(base64Data) ==
    LET buffer == Base64Decode(base64Data)
        start == IF Len(buffer) > 0 /\ buffer[1] = RES_SYS_UNSOLICITED THEN 2 ELSE 0
        RECURSIVE loop(_, _)
        loop(offset, values) ==
            IF offset + 1 < Len(buffer)
            THEN loop(offset + 2,
                      Append(values, buffer[offset + 1] * 256 + buffer[offset + 2]))
            ELSE IF offset < Len(buffer) THEN RangeError ELSE values
    IN  loop(start, <<>>)

\* A decoder that skips two bytes whatever the first byte is.
parseNotificationAlwaysStrips(base64Data) ==
    LET buffer == Base64Decode(base64Data)
        RECURSIVE loop(_, _)
        loop(offset, values) ==
            IF offset + 1 < Len(buffer)
            THEN loop(offset + 2,
                      Append(values, buffer[offset + 1] * 256 + buffer[offset + 2]))
            ELSE values
    IN  loop(2, <<>>)

\* Skip the 2-byte header after 0x8E, then read big-endian 16-bit values while
\* two bytes are left.  `offset` counts bytes from 0 as in the source.
parseNotification(base64Data) ==
    LET buffer == Base64Decode(base64Data)
        start == IF Len(buffer) > 0 /\ buffer[1] = RES_SYS_UNSOLICITED THEN 2 ELSE 0
        RECURSIVE loop(_, _)
        loop(offset, values) ==
            IF offset + 1 < Len(buffer)
            THEN loop(offset + 2,
                      Append(values, buffer[offset + 1] * 256 + buffer[offset + 2]))
            ELSE values
    IN  loop(start, <<>>)

(***************************************************************************)
(* Channel buffers and the publisher.                                      *)
(***************************************************************************)
\* The last n elements of s (Array.prototype.slice(-n), n > 0).
LastN(s, n) == IF Len(s) > n THEN SubSeq(s, Len(s) - n + 1, Len(s)) ELSE s

\* An appendBuffer that keeps the oldest maxSize elements.
appendBufferKeepsOldest(currentBuffer, newData, maxSize) ==
    LET updated == currentBuffer \o newData
    IN  IF Len(updated) > maxSize
        THEN SubSeq(updated, 1, maxSize)
        ELSE updated

\* appendBuffer of DataBuffer.js.
appendBuffer(currentBuffer, newData, maxSize) ==
    LET updated == currentBuffer \o newData
    IN  IF Len(updated) > maxSize
        THEN SubSeq(updated, Len(updated) - maxSize + 1, Len(updated))
        ELSE updated

\* A keyed map with one more key.
Put(map, key, value) ==
    [k \in DOMAIN map \cup {key} |-> IF k = key THEN value ELSE map[k]]

\* A pushToBuffer that uses unshift: the new value goes to the front.
pushToBufferFront(buffers, channelIndex, value) ==
    IF channelIndex \in DOMAIN buffers
    THEN [buffers EXCEPT ![channelIndex] = <<value>> \o @]
    ELSE Put(buffers, channelIndex, <<value>>)

\* pushToBuffer: create the channel's array at its first write, then push.
pushToBuffer(buffers, channelIndex, value) ==
    IF channelIndex \in DOMAIN buffers
    THEN [buffers EXCEPT ![channelIndex] = Append(@, value)]
    ELSE Put(buffers, channelIndex, <<value>>)

\* De-interleaving without the CQ11 branch: value i to channel i always.
RoutingGeneric(values) == [i \in 1..Len(values) |-> <<i - 1, values[i]>>]

\* De-interleaving over three channels whatever the number of values.
RoutingModulo(values) == [i \in 1..Len(values) |-> <<(i - 1) % 3, values[i]>>]

\* The pushes handleIncomingData makes for a decoded frame, in order:
\* <<channel, value>> pairs.
Routing(values) ==
    IF Len(values) = 6
    THEN <<<<0, values[1]>>, <<1, values[2]>>, <<2, values[3]>>,
           <<0, values[4]>>, <<1, values[5]>>, <<2, values[6]>>>>
    ELSE [i \in 1..Len(values) |-> <<i - 1, values[i]>>]

RECURSIVE PushAll(_, _)
PushAll(buffers, pairs) ==
    IF pairs = <<>> THEN buffers
    ELSE PushAll(pushToBuffer(buffers, Head(pairs)[1], Head(pairs)[2]), Tail(pairs))

\* A handler that creates the array of channel 0 before it looks at the frame.
handleIncomingDataTouch(buffers, base64Value) ==
    PushAll(IF 0 \in DOMAIN buffers THEN buffers ELSE Put(buffers, 0, <<>>),
            Routing(parseNotification(base64Value)))

\* A handler that gives way after the first sub-sample of a packet: only the
\* first half of the pushes is in the buffers when the next callback runs.
handleIncomingDataFirstHalf(buffers, base64Value) ==
    LET pairs == Routing(parseNotification(base64Value))
    IN  PushAll(buffers, SubSeq(pairs, 1, (Len(pairs) + 1) \div 2))

\* handleIncomingData: decode, then de-interleave into the buffers.
handleIncomingData(buffers, base64Value) ==
    PushAll(buffers, Routing(parseNotification(base64Value)))

\* An updater that appends without slicing.
PublishedAfterTickNoSlice(prev, buffers) ==
    LET keys == {k \in DOMAIN buffers : Len(buffers[k]) > 0}
    IN  [k \in DOMAIN prev \cup keys |->
            IF k \in keys
            THEN (IF k \in DOMAIN prev THEN prev[k] ELSE <<>>) \o buffers[k]
            ELSE prev[k]]

\* An updater that starts from {} instead of { ...prev }.
PublishedAfterTickOnlyNew(prev, buffers) ==
    LET keys == {k \in DOMAIN buffers : Len(buffers[k]) > 0}
    IN  IF keys = {} THEN prev
        ELSE [k \in keys |->
                LastN((IF k \in DOMAIN prev THEN prev[k] ELSE <<>>) \o buffers[k],
                      WindowSize)]

\* An updater that keeps the first 100 points instead of the last.
PublishedAfterTickHead(prev, buffers) ==
    LET keys == {k \in DOMAIN buffers : Len(buffers[k]) > 0}
        all(k) == (IF k \in DOMAIN prev THEN prev[k] ELSE <<>>) \o buffers[k]
    IN  [k \in DOMAIN prev \cup keys |->
            IF k \in keys
            THEN SubSeq(all(k), 1, IF Len(all(k)) < WindowSize THEN Len(all(k))
                                   ELSE WindowSize)
            ELSE prev[k]]

\* The updater the interval callback hands to setChannelData.
PublishedAfterTick(prev, buffers) ==
    LET keys == {k \in DOMAIN buffers : Len(buffers[k]) > 0}
    IN  [k \in DOMAIN prev \cup keys |->
            IF k \in keys
            THEN LastN((IF k \in DOMAIN prev THEN prev[k] ELSE <<>>) \o buffers[k],
                       WindowSize)
            ELSE prev[k]]

\* A tick that leaves the drained arrays in place.
BuffersAfterTickKeep(buffers) == buffers

\* The buffers after the tick: the arrays that held points are replaced by [].
BuffersAfterTick(buffers) ==
    [k \in DOMAIN buffers |-> IF Len(buffers[k]) > 0 THEN <<>> ELSE buffers[k]]

(***************************************************************************)
(* Transport calls as a task records them.                                 *)
(***************************************************************************)
Call(op, data) == [op |-> op, data |-> data, res |-> "pending"]
Returned(op, data) == [op |-> op, data |-> data, res |-> "ok"]

\* The log with its pending (last) call settled.
Settle(ops, ok) ==
    [ops EXCEPT ![Len(ops)].res = IF ok THEN "ok" ELSE "fail"]

\* No characteristic value has reached the monitor callback yet.
NothingReceived == [bytes |-> <<>>, values |-> <<>>]
\* No encoder call is being observed.
NothingEncoded ==
    [fn |-> "none", code |-> 0, freq |-> "", sim |-> FALSE, done |-> FALSE, out |-> <<>>]

IdleTask == [pc |-> "idle", dev |-> NoDevice, ops |-> <<>>]
\* `streaming` remembers whether stopAndDisconnect was invoked in status
\* Streaming.
IdleStop == [pc |-> "idle", dev |-> NoDevice, ops |-> <<>>, streaming |-> FALSE]

Init ==
    /\ status = "Disconnected"
    /\ device = NoDevice
    /\ channelData = <<>>
    /\ dataBuffers = <<>>
    /\ hs = [t \in Tasks |-> IdleTask]
    /\ st = [s \in Stops |-> IdleStop]
    /\ connected = {}
    /\ monitor = [t \in Tasks |-> "none"]
    /\ pushed = <<>>
    /\ drained = <<>>
    /\ delivered = 0
    /\ received = NothingReceived
    /\ encoded = NothingEncoded

(***************************************************************************)
(* connectAndStart.  A task's pc names the transport call it awaits.       *)
(***************************************************************************)
\* A handshake that starts from empty sample data.
connectAndStartClears(t, scannedDevice) ==
    /\ hs[t].pc = "idle"
    /\ \A u \in Tasks : u < t => hs[u].pc # "idle"
    /\ status' = "Connecting..."
    /\ hs' = [hs EXCEPT ![t] = [pc |-> "connect", dev |-> scannedDevice,
                                ops |-> <<Call("connect", <<>>)>>]]
    /\ channelData' = <<>>
    /\ dataBuffers' = <<>>
    /\ UNCHANGED <<device, st, connected, monitor,
                   pushed, drained, delivered, received, encoded>>

\* Lines 764-768: up to `await bleManager.connectToDevice`.
connectAndStart(t, scannedDevice) ==
    /\ hs[t].pc = "idle"
    /\ \A u \in Tasks : u < t => hs[u].pc # "idle"
    /\ status' = "Connecting..."
    /\ hs' = [hs EXCEPT ![t] = [pc |-> "connect", dev |-> scannedDevice,
                                ops |-> <<Call("connect", <<>>)>>]]
    /\ UNCHANGED <<device, channelData, dataBuffers, st, connected, monitor,
                   pushed, drained, delivered, received, encoded>>

\* A catch block that forgets setStatus('Error').
HandshakeCatchSilent(t) ==
    /\ hs' = [hs EXCEPT ![t].pc = "failed", ![t].ops = Settle(@, FALSE)]
    /\ UNCHANGED <<status, device, monitor>>

\* A catch block that starts the connection over.
HandshakeCatchRetry(t) ==
    /\ status' = "Error"
    /\ hs' = [hs EXCEPT ![t].pc = "connect",
                        ![t].ops = Append(Settle(@, FALSE), Call("connect", <<>>))]
    /\ UNCHANGED <<device, monitor>>

\* A catch block that also lets go of the device handle.
HandshakeCatchDropsDevice(t) ==
    /\ status' = "Error"
    /\ device' = NoDevice
    /\ hs' = [hs EXCEPT ![t].pc = "failed", ![t].ops = Settle(@, FALSE)]
    /\ UNCHANGED monitor

\* Lines 819-822: the catch block.
HandshakeCatch(t) ==
    /\ status' = "Error"
    /\ hs' = [hs EXCEPT ![t].pc = "failed", ![t].ops = Settle(@, FALSE)]
    /\ UNCHANGED <<device, monitor>>

\* Lines 769-772: setDevice, then discover.
AfterConnect(t) ==
    /\ device' = hs[t].dev
    /\ status' = "Discovering Services..."
    /\ hs' = [hs EXCEPT ![t].pc = "discover",
                        ![t].ops = Append(Settle(@, TRUE), Call("discover", <<>>))]
    /\ UNCHANGED monitor

\* Lines 776-783: write the system settings.
AfterDiscover(t) ==
    /\ status' = "Configuring Settings..."
    /\ hs' = [hs EXCEPT ![t].pc = "writeSetting",
                        ![t].ops = Append(Settle(@, TRUE),
                            Call("write", buildSysSettingCmd(RAW_ONLY, "200", TRUE)))]
    /\ UNCHANGED <<device, monitor>>

\* The handshake without its verification step: subscribe and start at once.
AfterSettingWriteSkipVerify(t) ==
    /\ monitor' = [monitor EXCEPT ![t] = "active"]
    /\ status' = "Starting Scan..."
    /\ hs' = [hs EXCEPT ![t].pc = "writeStart",
                        ![t].ops = Settle(@, TRUE) \o
                            <<Returned("subscribe", <<>>),
                              Call("write", buildSimpleCmd(CMD_SCAN_START))>>]
    /\ UNCHANGED device

\* Lines 786-792: write the parameter read.
AfterSettingWrite(t) ==
    /\ status' = "Verifying Parameters..."
    /\ hs' = [hs EXCEPT ![t].pc = "writeParam",
                        ![t].ops = Append(Settle(@, TRUE),
                            Call("write", buildSimpleCmd(CMD_SYS_PARAM_READ)))]
    /\ UNCHANGED <<device, monitor>>

\* The start command written without the monitor registered first.
AfterParamWriteNoMonitor(t) ==
    /\ status' = "Starting Scan..."
    /\ hs' = [hs EXCEPT ![t].pc = "writeStart",
                        ![t].ops = Append(Settle(@, TRUE),
                            Call("write", buildSimpleCmd(CMD_SCAN_START)))]
    /\ UNCHANGED <<device, monitor>>

\* A handshake that awaits a confirmation of the subscription: the transport
\* gives none.
AfterParamWriteAwaitsMonitor(t) ==
    /\ monitor' = [monitor EXCEPT ![t] = "active"]
    /\ status' = "Subscribing to Stream..."
    /\ hs' = [hs EXCEPT ![t].pc = "subscribe",
                        ![t].ops = Append(Settle(@, TRUE), Call("subscribe", <<>>))]
    /\ UNCHANGED device

\* Lines 795-815: register the monitor (it returns at once; 'Subscribing to
\* Stream...' is overwritten before the handler yields), then write the start.
AfterParamWrite(t) ==
    /\ monitor' = [monitor EXCEPT ![t] = "active"]
    /\ status' = "Starting Scan..."
    /\ hs' = [hs EXCEPT ![t].pc = "writeStart",
                        ![t].ops = Settle(@, TRUE) \o
                            <<Returned("subscribe", <<>>),
                              Call("write", buildSimpleCmd(CMD_SCAN_START))>>]
    /\ UNCHANGED device

\* Line 817.
AfterStartWrite(t) ==
    /\ status' = "Streaming"
    /\ hs' = [hs EXCEPT ![t].pc = "done", ![t].ops = Settle(@, TRUE)]
    /\ UNCHANGED <<device, monitor>>

\* connectToDevice resolves or rejects.
ConnectResolved(t, ok) ==
    /\ hs[t].pc = "connect"
    /\ connected' = IF ok THEN connected \cup {hs[t].dev} ELSE connected
    /\ IF ok THEN AfterConnect(t) ELSE HandshakeCatch(t)
    /\ UNCHANGED <<channelData, dataBuffers, st, pushed, drained, delivered,
                   received, encoded>>

\* An operation on the connection succeeds only while the connection is open.
CanSucceed(dev, ok) == ok => dev \in connected

DiscoverResolved(t, ok) ==
    /\ hs[t].pc = "discover"
    /\ CanSucceed(hs[t].dev, ok)
    /\ IF ok THEN AfterDiscover(t) ELSE HandshakeCatch(t)
    /\ UNCHANGED <<channelData, dataBuffers, st, connected, pushed, drained, delivered,
                   received, encoded>>

SettingWriteResolved(t, ok) ==
    /\ hs[t].pc = "writeSetting"
    /\ CanSucceed(hs[t].dev, ok)
    /\ IF ok THEN AfterSettingWrite(t) ELSE HandshakeCatch(t)
    /\ UNCHANGED <<channelData, dataBuffers, st, connected, pushed, drained, delivered,
                   received, encoded>>

ParamWriteResolved(t, ok) ==
    /\ hs[t].pc = "writeParam"
    /\ CanSucceed(hs[t].dev, ok)
    /\ IF ok THEN AfterParamWrite(t) ELSE HandshakeCatch(t)
    /\ UNCHANGED <<channelData, dataBuffers, st, connected, pushed, drained, delivered,
                   received, encoded>>

StartWriteResolved(t, ok) ==
    /\ hs[t].pc = "writeStart"
    /\ CanSucceed(hs[t].dev, ok)
    /\ IF ok THEN AfterStartWrite(t) ELSE HandshakeCatch(t)
    /\ UNCHANGED <<channelData, dataBuffers, st, connected, pushed, drained, delivered,
                   received, encoded>>

(***************************************************************************)
(* The monitor callback (lines 799-805).                                   *)
(***************************************************************************)
\* The transport reports an error: it is logged and nothing else happens.
\* The transport ends a monitor that failed.
SubscriptionError(t) ==
    /\ monitor[t] = "active"
    /\ monitor' = [monitor EXCEPT ![t] = "failed"]
    /\ UNCHANGED <<status, device, channelData, dataBuffers, hs, st, connected,
                   pushed, drained, delivered, received, encoded>>

\* The calls of pushToBuffer, recorded apart from the buffers.
RECURSIVE Record(_, _)
Record(hist, pairs) ==
    IF pairs = <<>> THEN hist
    ELSE LET ch == Head(pairs)[1]
             old == IF ch \in DOMAIN hist THEN hist[ch] ELSE <<>>
         IN  Record(Put(hist, ch, Append(old, Head(pairs)[2])), Tail(pairs))

\* A callback that waits until the publisher has emptied the buffers.
NotifyWaitsForDrain(t, bytes) ==
    /\ monitor[t] = "active"
    /\ hs[t].dev \in connected
    /\ \A k \in DOMAIN dataBuffers : dataBuffers[k] = <<>>
    /\ dataBuffers' = handleIncomingData(dataBuffers, Base64Encode(bytes))
    /\ pushed' = Record(pushed, Routing(parseNotification(Base64Encode(bytes))))
    /\ delivered' = delivered + 1
    /\ received' = [bytes |-> bytes,
                    values |-> parseNotification(Base64Encode(bytes))]
    /\ UNCHANGED <<status, device, channelData, hs, st, connected, monitor, drained,
                   encoded>>

\* A callback that takes a value without samples for a failure of the link.
NotifyAbortsOnAnomaly(t, bytes) ==
    /\ monitor[t] = "active"
    /\ hs[t].dev \in connected
    /\ dataBuffers' = handleIncomingData(dataBuffers, Base64Encode(bytes))
    /\ pushed' = Record(pushed, Routing(parseNotification(Base64Encode(bytes))))
    /\ delivered' = delivered + 1
    /\ received' = [bytes |-> bytes,
                    values |-> parseNotification(Base64Encode(bytes))]
    /\ status' = IF parseNotification(Base64Encode(bytes)) = <<>> THEN "Error" ELSE status
    /\ monitor' = IF parseNotification(Base64Encode(bytes)) = <<>>
                  THEN [monitor EXCEPT ![t] = "failed"] ELSE monitor
    /\ UNCHANGED <<device, channelData, hs, st, connected, drained, encoded>>

\* The transport delivers a characteristic value to the monitor of task t.
Notify(t, bytes) ==
    /\ monitor[t] = "active"
    /\ hs[t].dev \in connected
    /\ dataBuffers' = handleIncomingData(dataBuffers, Base64Encode(bytes))
    /\ pushed' = Record(pushed, Routing(parseNotification(Base64Encode(bytes))))
    /\ delivered' = delivered + 1
    /\ received' = [bytes |-> bytes,
                    values |-> parseNotification(Base64Encode(bytes))]
    /\ UNCHANGED <<status, device, channelData, hs, st, connected, monitor, drained,
                   encoded>>

(***************************************************************************)
(* stopAndDisconnect (lines 871-889).                                      *)
(***************************************************************************)
\* A stop that clears the sample data even when no device is held.
stopAndDisconnectClears(s) ==
    /\ st[s].pc = "idle"
    /\ \A u \in Stops : u < s => st[u].pc # "idle"
    /\ st' = [st EXCEPT ![s] =
                IF device # NoDevice
                THEN [pc |-> "write", dev |-> device, streaming |-> status = "Streaming",
                      ops |-> <<Call("write", buildSimpleCmd(CMD_SCAN_STOP))>>]
                ELSE [pc |-> "done", dev |-> NoDevice, streaming |-> status = "Streaming",
                      ops |-> <<>>]]
    /\ channelData' = IF device # NoDevice THEN channelData ELSE <<>>
    /\ dataBuffers' = IF device # NoDevice THEN dataBuffers ELSE <<>>
    /\ UNCHANGED <<status, device, hs, connected, monitor,
                   pushed, drained, delivered, received, encoded>>

\* Up to `await device.writeCharacteristicWithResponseForService`; nothing at
\* all when no device is held.
stopAndDisconnect(s) ==
    /\ st[s].pc = "idle"
    /\ \A u \in Stops : u < s => st[u].pc # "idle"
    /\ st' = [st EXCEPT ![s] =
                IF device # NoDevice
                THEN [pc |-> "write", dev |-> device, streaming |-> status = "Streaming",
                      ops |-> <<Call("write", buildSimpleCmd(CMD_SCAN_STOP))>>]
                ELSE [pc |-> "done", dev |-> NoDevice, streaming |-> status = "Streaming",
                      ops |-> <<>>]]
    /\ UNCHANGED <<status, device, channelData, dataBuffers, hs, connected, monitor,
                   pushed, drained, delivered, received, encoded>>

\* The stop write outside any try: its failure ends stopAndDisconnect.
AfterStopWriteThrows(s, ok) ==
    /\ st' = [st EXCEPT ![s].pc = IF ok THEN "cancel" ELSE "done",
                        ![s].ops = IF ok THEN Append(Settle(@, ok), Call("cancel", <<>>))
                                         ELSE Settle(@, ok)]
    /\ UNCHANGED status

\* try { await write } catch (ignored) {}, then cancelConnection is requested.
AfterStopWrite(s, ok) ==
    /\ st' = [st EXCEPT ![s].pc = "cancel",
                        ![s].ops = Append(Settle(@, ok), Call("cancel", <<>>))]
    /\ UNCHANGED status

StopWriteResolved(s, ok) ==
    /\ st[s].pc = "write"
    /\ CanSucceed(st[s].dev, ok)
    /\ AfterStopWrite(s, ok)
    /\ UNCHANGED <<device, channelData, dataBuffers, hs, connected, monitor,
                   pushed, drained, delivered, received, encoded>>

\* A disconnect that leaves the published snapshot in place.
AfterCancelKeepsSnapshot(s) ==
    /\ device' = NoDevice
    /\ status' = "Disconnected"
    /\ channelData' = channelData
    /\ dataBuffers' = <<>>
    /\ st' = [st EXCEPT ![s].pc = "done", ![s].ops = Settle(@, TRUE)]

\* Lines 883-887, after cancelConnection resolved.
AfterCancel(s) ==
    /\ device' = NoDevice
    /\ status' = "Disconnected"
    /\ channelData' = <<>>
    /\ dataBuffers' = <<>>
    /\ st' = [st EXCEPT ![s].pc = "done", ![s].ops = Settle(@, TRUE)]

\* The transport closes the connection and ends the monitors on it, which
\* reaches each monitor's callback as an error.
CancelResolved(s) ==
    /\ st[s].pc = "cancel"
    /\ connected' = connected \ {st[s].dev}
    /\ monitor' = [t \in Tasks |->
                     IF monitor[t] = "active" /\ hs[t].dev = st[s].dev
                     THEN "failed" ELSE monitor[t]]
    /\ AfterCancel(s)
    /\ pushed' = <<>>
    /\ drained' = <<>>
    /\ UNCHANGED <<hs, delivered, received, encoded>>

(***************************************************************************)
(* The publisher: the setInterval callback (lines 899-925).                *)
(***************************************************************************)
Tick ==
    /\ channelData' = IF DOMAIN dataBuffers # {}
                      THEN PublishedAfterTick(channelData, dataBuffers)
                      ELSE channelData
    /\ dataBuffers' = BuffersAfterTick(dataBuffers)
    /\ drained' = [k \in DOMAIN drained \cup DOMAIN dataBuffers |->
                     (IF k \in DOMAIN drained THEN drained[k] ELSE 0)
                     + (IF k \in DOMAIN dataBuffers THEN Len(dataBuffers[k]) ELSE 0)]
    /\ UNCHANGED <<status, device, hs, st, connected, monitor, pushed, delivered,
                   received, encoded>>

(***************************************************************************)
(* The system: user intents, transport resolutions, notifications, timer.  *)
(***************************************************************************)
\* The characteristic values the device sends in Spec: a CQ11 packet of six
\* values, a headerless packet of one value, and a bare header.
Payloads ==
    { <<142, 2, 0, 100, 0, 200, 1, 44, 0, 101, 0, 201, 1, 45>>,
      <<0, 7>>,
      <<142>> }

\* The devices are interchangeable: the first tap is taken to be on d1.
Tap(t, d) == (t = 1 => d = "d1") /\ connectAndStart(t, d)

\* The user intents made so far.
Intents ==
    Cardinality({t \in Tasks : hs[t].pc # "idle"})
    + Cardinality({s \in Stops : st[s].pc # "idle"})

Next ==
    \/ \E t \in Tasks, d \in Devices : Intents < MaxIntents /\ Tap(t, d)
    \/ \E s \in Stops : Intents < MaxIntents /\ stopAndDisconnect(s)
    \/ \E t \in Tasks, ok \in BOOLEAN : ConnectResolved(t, ok)
    \/ \E t \in Tasks, ok \in BOOLEAN : DiscoverResolved(t, ok)
    \/ \E t \in Tasks, ok \in BOOLEAN : SettingWriteResolved(t, ok)
    \/ \E t \in Tasks, ok \in BOOLEAN : ParamWriteResolved(t, ok)
    \/ \E t \in Tasks, ok \in BOOLEAN : StartWriteResolved(t, ok)
    \/ \E t \in Tasks : SubscriptionError(t)
    \/ \E t \in Tasks, b \in Payloads : delivered < MaxNotifications /\ Notify(t, b)
    \/ \E s \in Stops, ok \in BOOLEAN : StopWriteResolved(s, ok)
    \/ \E s \in Stops : CancelResolved(s)
    \/ Tick

Spec == Init /\ [][Next]_vars

\* Every transport operation a handshake awaits resolves or rejects at some
\* time: the promise is settled and the handler's continuation runs.
HandshakeResolves(t) ==
    /\ WF_vars(\E ok \in BOOLEAN : ConnectResolved(t, ok))
    /\ WF_vars(\E ok \in BOOLEAN : DiscoverResolved(t, ok))
    /\ WF_vars(\E ok \in BOOLEAN : SettingWriteResolved(t, ok))
    /\ WF_vars(\E ok \in BOOLEAN : ParamWriteResolved(t, ok))
    /\ WF_vars(\E ok \in BOOLEAN : StartWriteResolved(t, ok))

\* The session alone: intents and transport resolutions.  Notifications,
\* subscription errors and ticks are left aside: they neither read nor write
\* the status, the device or the position of a handshake or of a stop.
NextHandshake ==
    \/ \E t \in Tasks, d \in Devices : Intents < MaxIntents /\ Tap(t, d)
    \/ \E s \in Stops : Intents < MaxIntents /\ stopAndDisconnect(s)
    \/ \E t \in Tasks, ok \in BOOLEAN : ConnectResolved(t, ok)
    \/ \E t \in Tasks, ok \in BOOLEAN : DiscoverResolved(t, ok)
    \/ \E t \in Tasks, ok \in BOOLEAN : SettingWriteResolved(t, ok)
    \/ \E t \in Tasks, ok \in BOOLEAN : ParamWriteResolved(t, ok)
    \/ \E t \in Tasks, ok \in BOOLEAN : StartWriteResolved(t, ok)
    \/ \E s \in Stops, ok \in BOOLEAN : StopWriteResolved(s, ok)
    \/ \E s \in Stops : CancelResolved(s)

SpecHandshakeFair ==
    Init /\ [][NextHandshake]_vars /\ \A t \in Tasks : HandshakeResolves(t)

(***************************************************************************)
(* A streaming session fed by a long run of CQ11 packets: the state after  *)
(* one handshake with d1 succeeded, then notifications and timer ticks     *)
(* only.  The n-th packet carries the values 6n+1 .. 6n+6.                 *)
(***************************************************************************)
Bytes16(v) == <<v \div 256, v % 256>>

StreamFrame(n) ==
    <<RES_SYS_UNSOLICITED, 12>>
    \o Bytes16(6 * n + 1) \o Bytes16(6 * n + 2) \o Bytes16(6 * n + 3)
    \o Bytes16(6 * n + 4) \o Bytes16(6 * n + 5) \o Bytes16(6 * n + 6)

StreamingTask ==
    [pc |-> "done", dev |-> "d1",
     ops |-> << Returned("connect", <<>>), Returned("discover", <<>>),
                Returned("write", buildSysSettingCmd(RAW_ONLY, "200", TRUE)),
                Returned("write", buildSimpleCmd(CMD_SYS_PARAM_READ)),
                Returned("subscribe", <<>>),
                Returned("write", buildSimpleCmd(CMD_SCAN_START)) >>]

InitStream ==
    /\ status = "Streaming"
    /\ device = "d1"
    /\ channelData = <<>>
    /\ dataBuffers = <<>>
    /\ hs = [t \in Tasks |-> IF t = 1 THEN StreamingTask ELSE IdleTask]
    /\ st = [s \in Stops |-> IdleStop]
    /\ connected = {"d1"}
    /\ monitor = [t \in Tasks |-> IF t = 1 THEN "active" ELSE "none"]
    /\ pushed = <<>>
    /\ drained = <<>>
    /\ delivered = 0
    /\ received = NothingReceived
    /\ encoded = NothingEncoded

StreamNotify == delivered < StreamLen /\ Notify(1, StreamFrame(delivered))

NextStream == StreamNotify \/ Tick

SpecStream == InitStream /\ [][NextStream]_vars

\* setInterval keeps firing its callback while the hook is mounted: a tick
\* that has something to drain is not postponed for ever.
SpecStreamFair == SpecStream /\ WF_vars(Tick)

(***************************************************************************)
(* Two sessions at once: the state after connectAndStart was invoked for   *)
(* d1 and then for d2 before the first handshake had set the device, and   *)
(* both handshakes succeeded.  The hook holds d2; both monitors feed the   *)
(* one set of buffers.  From there: stops, notifications and timer ticks.  *)
(***************************************************************************)
InitOverlap ==
    /\ status = "Streaming"
    /\ device = "d2"
    /\ channelData = <<>>
    /\ dataBuffers = <<>>
    /\ hs = [t \in Tasks |-> IF t = 1 THEN StreamingTask
                             ELSE IF t = 2 THEN [StreamingTask EXCEPT !.dev = "d2"]
                             ELSE IdleTask]
    /\ st = [s \in Stops |-> IdleStop]
    /\ connected = {"d1", "d2"}
    /\ monitor = [t \in Tasks |-> IF t <= 2 THEN "active" ELSE "none"]
    /\ pushed = <<>>
    /\ drained = <<>>
    /\ delivered = 0
    /\ received = NothingReceived
    /\ encoded = NothingEncoded

NextOverlap ==
    \/ \E s \in Stops : Intents <= MaxIntents + 1 /\ stopAndDisconnect(s)
    \/ \E s \in Stops, ok \in BOOLEAN : StopWriteResolved(s, ok)
    \/ \E s \in Stops : CancelResolved(s)
    \/ \E t \in Tasks : SubscriptionError(t)
    \/ \E t \in Tasks, b \in Payloads : delivered < MaxNotifications /\ Notify(t, b)
    \/ Tick

SpecOverlap == InitOverlap /\ [][NextOverlap]_vars

\* The state SpecOverlap starts in is a state of Spec.
OverlapStartReached ==
    /\ status = "Streaming" /\ device = "d2"
    /\ hs[1] = StreamingTask /\ hs[2] = [StreamingTask EXCEPT !.dev = "d2"]
    /\ st = [s \in Stops |-> IdleStop]
    /\ connected = {"d1", "d2"} /\ monitor[1] = "active" /\ monitor[2] = "active"
    /\ channelData = <<>> /\ dataBuffers = <<>> /\ delivered = 0
    /\ received = NothingReceived /\ encoded = NothingEncoded

(***************************************************************************)
(* A streaming session fed by characteristic values of every length up to  *)
(* MaxFrameLen, with and without the 0x8E header: the decoder and the      *)
(* de-interleaving on all their cases, against buffers that are absent,    *)
(* empty or filled.                                                        *)
(***************************************************************************)
\* The byte at position i (counted from 1) of a drawn value.
PatternByte(i) == (85 * i) % 256

FrameOf(first, n) == [i \in 1..n |-> IF i = 1 THEN first ELSE PatternByte(i)]

Frames ==
    {FrameOf(RES_SYS_UNSOLICITED, n) : n \in 0..MaxFrameLen}
    \cup {FrameOf(0, n) : n \in {1, 2, 3, 12, 13}}
    \cup Payloads

FrameNotify == \E b \in Frames : delivered < MaxFrames /\ Notify(1, b)

NextFrames == FrameNotify \/ Tick

SpecFrames == InitStream /\ [][NextFrames]_vars

(***************************************************************************)
(* The command encoders applied to every mode and command code from -1 to  *)
(* MaxCode, both simulation flags and two rates.                           *)
(***************************************************************************)
Codes == -1..MaxCode
Freqs == {"200", "100"}

EncodeCalls ==
    {[fn |-> "buildSysSettingCmd", code |-> m, freq |-> f, sim |-> b,
      done |-> FALSE, out |-> <<>>] : m \in Codes, f \in Freqs, b \in BOOLEAN}
    \cup {[fn |-> "buildSimpleCmd", code |-> c, freq |-> "", sim |-> FALSE,
           done |-> FALSE, out |-> <<>>] : c \in Codes}

InitEncode ==
    /\ status = "Disconnected"
    /\ device = NoDevice
    /\ channelData = <<>>
    /\ dataBuffers = <<>>
    /\ hs = [t \in Tasks |-> IdleTask]
    /\ st = [s \in Stops |-> IdleStop]
    /\ connected = {}
    /\ monitor = [t \in Tasks |-> "none"]
    /\ pushed = <<>>
    /\ drained = <<>>
    /\ delivered = 0
    /\ received = NothingReceived
    /\ encoded \in EncodeCalls

EncodeSysSetting ==
    /\ encoded.fn = "buildSysSettingCmd" /\ ~encoded.done
    /\ encoded' = [encoded EXCEPT
                     !.done = TRUE,
                     !.out = buildSysSettingCmd(encoded.code, encoded.freq, encoded.sim)]
    /\ UNCHANGED <<status, device, channelData, dataBuffers, hs, st, connected,
                   monitor, pushed, drained, delivered, received>>

EncodeSimple ==
    /\ encoded.fn = "buildSimpleCmd" /\ ~encoded.done
    /\ encoded' = [encoded EXCEPT !.done = TRUE, !.out = buildSimpleCmd(encoded.code)]
    /\ UNCHANGED <<status, device, channelData, dataBuffers, hs, st, connected,
                   monitor, pushed, drained, delivered, received>>

NextEncode == EncodeSysSetting \/ EncodeSimple

SpecEncode == InitEncode /\ [][NextEncode]_vars

(***************************************************************************)
(* appendBuffer applied to arrays of 0 to MaxAppendLen elements and of     *)
(* about 100 elements, with maxSize from 0 to MaxAppendLen and 100.        *)
(***************************************************************************)
\* The array first + 1, ..., first + n.
Ramp(first, n) == [i \in 1..n |-> first + i]

AppendLens ==
    0..MaxAppendLen \cup {DefaultMaxSize - 1, DefaultMaxSize, DefaultMaxSize + 1}

AppendCalls ==
    {[fn |-> "appendBuffer", currentBuffer |-> Ramp(0, n), newData |-> Ramp(1000, m),
      maxSize |-> k, done |-> FALSE, out |-> <<>>] :
        n \in AppendLens, m \in AppendLens, k \in 0..MaxAppendLen \cup {DefaultMaxSize}}

InitAppend ==
    /\ status = "Disconnected"
    /\ device = NoDevice
    /\ channelData = <<>>
    /\ dataBuffers = <<>>
    /\ hs = [t \in Tasks |-> IdleTask]
    /\ st = [s \in Stops |-> IdleStop]
    /\ connected = {}
    /\ monitor = [t \in Tasks |-> "none"]
    /\ pushed = <<>>
    /\ drained = <<>>
    /\ delivered = 0
    /\ received = NothingReceived
    /\ encoded \in AppendCalls

AppendStep ==
    /\ encoded.fn = "appendBuffer" /\ ~encoded.done
    /\ encoded' = [encoded EXCEPT
                     !.done = TRUE,
                     !.out = appendBuffer(encoded.currentBuffer, encoded.newData,
                                          encoded.maxSize)]
    /\ UNCHANGED <<status, device, channelData, dataBuffers, hs, st, connected,
                   monitor, pushed, drained, delivered, received>>

NextAppend == AppendStep

SpecAppend == InitAppend /\ [][NextAppend]_vars

\* The state SpecStream starts in is a state of Spec.
StreamStartReached ==
    /\ status = "Streaming" /\ device = "d1" /\ hs[1] = StreamingTask
    /\ \A t \in Tasks : t # 1 => hs[t] = IdleTask
    /\ st = [s \in Stops |-> IdleStop]
    /\ connected = {"d1"} /\ monitor[1] = "active"
    /\ channelData = <<>> /\ dataBuffers = <<>> /\ delivered = 0
    /\ received = NothingReceived /\ encoded = NothingEncoded

(***************************************************************************)
(* Properties.                                                             *)
(***************************************************************************)
\* What a recorded transport call is: its operation and, for a write, the
\* command code it carries.
Kind(call) ==
    IF call.op = "write" THEN <<"write", Base64Decode(call.data)[1]>> ELSE <<call.op>>

HandshakeKinds ==
    << <<"connect">>, <<"discover">>, <<"write", CMD_SYS_SETTING_SET>>,
       <<"write", CMD_SYS_PARAM_READ>>, <<"subscribe">>, <<"write", CMD_SCAN_START>> >>

Failed(t) == \E i \in 1..Len(hs[t].ops) : hs[t].ops[i].res = "fail"
Completed(t) ==
    /\ Len(hs[t].ops) = Len(HandshakeKinds)
    /\ \A i \in 1..Len(hs[t].ops) : hs[t].ops[i].res = "ok"
InProgress(t) == hs[t].pc \notin {"idle", "done", "failed"}
Sent(t, code) ==
    \E i \in 1..Len(hs[t].ops) : Kind(hs[t].ops[i]) = <<"write", code>>

\* C1: the transport calls of every handshake are, in this order, connect,
\* discoverServices, write(SYSTEM_SETTING), write(PARAM_READ), subscribe,
\* write(SCAN_START); a call is made only when every earlier one returned
\* without failure; and the status is Streaming only when some handshake has
\* made all six and the SCAN_START write resolved.
C1_HandshakeOrder ==
    /\ \A t \in Tasks :
          /\ Len(hs[t].ops) <= Len(HandshakeKinds)
          /\ \A i \in 1..Len(hs[t].ops) : Kind(hs[t].ops[i]) = HandshakeKinds[i]
          /\ \A i \in 1..(Len(hs[t].ops) - 1) : hs[t].ops[i].res = "ok"
    /\ status = "Streaming" => \E t \in Tasks : Completed(t)

\* A handshake made all six calls and the status is Streaming.
C1_Witness ==
    \E t \in Tasks : Completed(t) /\ hs[t].pc = "done" /\ status = "Streaming"

\* A handshake one of whose calls failed has stopped there.
C2_FailedInv ==
    \A t \in Tasks :
        Failed(t) => /\ hs[t].pc = "failed"
                     /\ hs[t].ops[Len(hs[t].ops)].res = "fail"
                     /\ ~Completed(t)

C2_FailureStep ==
    \A t \in Tasks : (hs[t].pc # "failed" /\ hs'[t].pc = "failed") => status' = "Error"

\* C2: a handshake one of whose calls failed has stopped there: the failed call
\* is its last call (no call of a later step is ever made), it has ended in the
\* catch block and never in Streaming; and the step in which the call fails
\* sets the status to Error.
C2_FailureHalts == []C2_FailedInv /\ [][C2_FailureStep]_vars

\* The SYSTEM_SETTING write failed: three calls were made and no more.
C2_Witness ==
    \E t \in Tasks :
        /\ hs[t].pc = "failed" /\ status = "Error" /\ Len(hs[t].ops) = 3
        /\ Kind(hs[t].ops[3]) = <<"write", CMD_SYS_SETTING_SET>>
        /\ hs[t].ops[3].res = "fail"

\* C3: a handshake whose notification subscription reported an error neither
\* goes on towards Streaming nor stays in Streaming: it is aborted.
C3_SubscribeFailureAborts ==
    \A t \in Tasks :
        monitor[t] = "failed" =>
            /\ hs[t].pc # "writeStart"
            /\ ~(hs[t].pc = "done" /\ status = "Streaming")

\* C4: a handshake that has sent SCAN_START has registered its notification
\* subscription with the transport.
C4_SubscribedBeforeStart ==
    \A t \in Tasks : Sent(t, CMD_SCAN_START) => monitor[t] # "none"

\* SCAN_START was sent by a handshake whose monitor is delivering.
C4_Witness ==
    \E t \in Tasks : Sent(t, CMD_SCAN_START) /\ monitor[t] = "active"

\* C5: a stop() call made in status Streaming or Error is accepted: it
\* attempts the SCAN_STOP write (and so goes on to the teardown).
C5_StopAccepted ==
    [][\A s \in Stops :
          (st[s].pc = "idle" /\ st'[s].pc # "idle" /\ status \in {"Streaming", "Error"})
              => /\ st'[s].pc = "write"
                 /\ Kind(st'[s].ops[1]) = <<"write", CMD_SCAN_STOP>>]_vars

StopWriteFailed(s) == st[s].ops # <<>> /\ st[s].ops[1].res = "fail"

C6_FailedWriteInv ==
    \A s \in Stops :
        StopWriteFailed(s) => /\ st[s].pc \in {"cancel", "done"}
                              /\ Len(st[s].ops) = 2
                              /\ st[s].ops[2].op = "cancel"

C6_StopStep ==
    \A s \in Stops :
        /\ (st[s].pc = "write" /\ st'[s].pc # "write" /\ st'[s].ops[1].res = "fail")
              => status' = status
        /\ (st[s].pc # "done" /\ st'[s].pc = "done" /\ StopWriteFailed(s))
              => /\ status' = "Disconnected"
                 /\ st[s].dev \notin connected'
                 /\ dataBuffers' = <<>>
                 /\ channelData' = <<>>

\* C6: a stop() whose SCAN_STOP write failed still requests the teardown; the
\* failing step leaves the status alone (no Error, nothing thrown); and the
\* step that ends the stop sets Disconnected, closes the connection and
\* leaves no channel in the buffers or in the published snapshot.
C6_StopWriteFailureSwallowed == []C6_FailedWriteInv /\ [][C6_StopStep]_vars

\* A stop invoked in Streaming, after a notification arrived, has ended with
\* its write failed.
C6_Witness ==
    \E s \in Stops :
        /\ st[s].pc = "done" /\ st[s].streaming /\ StopWriteFailed(s)
        /\ delivered > 0
        /\ status = "Disconnected" /\ dataBuffers = <<>> /\ channelData = <<>>

\* C7: never two handshakes in progress, never two open connections, never
\* two notification subscriptions feeding the buffers.
C7_OneLiveSession ==
    /\ Cardinality({t \in Tasks : InProgress(t)}) <= 1
    /\ Cardinality(connected) <= 1
    /\ Cardinality({t \in Tasks : monitor[t] = "active"}) <= 1

\* The handlers that await a write.
PendingWrites ==
    {<<"hs", t>> : t \in {u \in Tasks : hs[u].pc \in {"writeSetting", "writeParam",
                                                       "writeStart"}}}
    \cup {<<"st", s>> : s \in {u \in Stops : st[u].pc = "write"}}

\* C8: outbound writes never overlap: at most one write is in flight.
C8_NoOverlappingWrites == Cardinality(PendingWrites) <= 1

RECURSIVE SumLen(_, _)
SumLen(f, S) ==
    IF S = {} THEN 0
    ELSE LET x == CHOOSE y \in S : TRUE IN Len(f[x].ops) + SumLen(f, S \ {x})

CallCount == SumLen(hs, Tasks) + SumLen(st, Stops)
Quiet ==
    /\ \A t \in Tasks : ~InProgress(t)
    /\ \A s \in Stops : st[s].pc \in {"idle", "done"}
Intent ==
    \/ \E t \in Tasks : hs[t].pc = "idle" /\ hs'[t].pc # "idle"
    \/ \E s \in Stops : st[s].pc = "idle" /\ st'[s].pc # "idle"

C9_NoRetryStep ==
    /\ \A t \in Tasks : Failed(t) => hs'[t].ops = hs[t].ops
    /\ (status = "Error" /\ Quiet /\ ~Intent) => CallCount' = CallCount

\* C9: there is no automatic retry: a handshake one of whose calls failed makes
\* no further transport call; and while the status is Error and no handler
\* awaits anything, only a user intent (connectAndStart, stopAndDisconnect)
\* adds a transport call.
C9_NoAutomaticRetry == [][C9_NoRetryStep]_vars

\* The SCAN_START write of a handshake failed and nothing is awaited.
C9_Witness ==
    /\ status = "Error" /\ Quiet /\ delivered > 0
    /\ \E t \in Tasks : Failed(t) /\ Len(hs[t].ops) = Len(HandshakeKinds)

\* The points pushed to channel k since the publisher last drained it.
SinceDrain(k) ==
    SubSeq(pushed[k], (IF k \in DOMAIN drained THEN drained[k] ELSE 0) + 1,
           Len(pushed[k]))

\* C10: a channel buffer never holds more than the capacity (100): it holds
\* the most recently pushed 100 of the points pushed since it was last drained.
C10_BufferWithinCapacity ==
    \A k \in DOMAIN dataBuffers :
        /\ Len(dataBuffers[k]) <= DefaultMaxSize
        /\ dataBuffers[k] = LastN(SinceDrain(k), DefaultMaxSize)

(***************************************************************************)
(* The publisher.                                                          *)
(***************************************************************************)
\* A step of the interval callback: nothing of the session, the transport or
\* the ingest history moves.
TickStep ==
    UNCHANGED <<status, device, hs, st, connected, monitor, pushed, delivered>>

Published(k) == IF k \in DOMAIN channelData THEN channelData[k] ELSE <<>>
Buffered(k) == IF k \in DOMAIN dataBuffers THEN dataBuffers[k] ELSE <<>>
Drained(k) == IF k \in DOMAIN drained THEN drained[k] ELSE 0

\* out is the last 100 elements of all, or all of it when it is shorter.
IsLast100(all, out) ==
    /\ Len(out) = IF Len(all) < 100 THEN Len(all) ELSE 100
    /\ \A i \in 1..Len(out) : out[i] = all[Len(all) - Len(out) + i]

C11_Bounded == \A k \in DOMAIN channelData : Len(channelData[k]) <= 100

C11_TickMerges ==
    TickStep =>
        \A k \in DOMAIN dataBuffers :
            Len(dataBuffers[k]) > 0 =>
                /\ k \in DOMAIN channelData'
                /\ IsLast100(Published(k) \o dataBuffers[k], channelData'[k])

\* C11: a tick publishes, for every channel whose buffer holds points, the
\* last 100 elements of the previously published sequence followed by the
\* buffered points in arrival order; so no published channel is ever longer
\* than 100.
C11_PublisherMerge == []C11_Bounded /\ [][C11_TickMerges]_vars

\* 230 points were pushed to channel 0 and all were drained (as by a tick at
\* 80 points and a tick 150 points later): the last 100 of them are published.
C11_Witness ==
    /\ 0 \in DOMAIN pushed /\ Len(pushed[0]) = 230 /\ Drained(0) = 230
    /\ Buffered(0) = <<>>
    /\ Len(Published(0)) = 100
    /\ Published(0)[1] = pushed[0][131] /\ Published(0)[100] = pushed[0][230]

\* C12: a tick leaves every channel without new points as it was: when no
\* buffer holds a point the published snapshot does not change, and in a tick
\* that publishes, a channel whose buffer is empty or absent keeps its
\* published sequence, and no channel without points appears.
C12_TickFrame ==
    [][TickStep =>
          /\ (\A k \in DOMAIN dataBuffers : dataBuffers[k] = <<>>)
                 => channelData' = channelData
          /\ \A k \in DOMAIN channelData \cup DOMAIN channelData' :
                 Buffered(k) = <<>> =>
                     /\ k \in DOMAIN channelData /\ k \in DOMAIN channelData'
                     /\ channelData'[k] = channelData[k]]_vars

\* A tick is about to publish channel 0 while channel 1, published before, has
\* no new point.
C12_Witness ==
    /\ Buffered(0) # <<>> /\ Buffered(1) = <<>>
    /\ Published(1) # <<>> /\ Published(0) # <<>>

\* Every point pushed to channel k is, in push order, either among the drained
\* points (whose last 100 are published) or still in the buffer.
C13_Accounted ==
    \A k \in DOMAIN pushed \cup DOMAIN dataBuffers \cup DOMAIN channelData :
        /\ k \in DOMAIN pushed
        /\ Drained(k) <= Len(pushed[k])
        /\ Buffered(k) = SubSeq(pushed[k], Drained(k) + 1, Len(pushed[k]))
        /\ IsLast100(SubSeq(pushed[k], 1, Drained(k)), Published(k))

C13_TickClears ==
    TickStep => \A k \in DOMAIN dataBuffers : k \in DOMAIN dataBuffers'
                                               /\ dataBuffers'[k] = <<>>

\* C13: a tick drains and clears in one step: after it the buffer of every
\* channel is empty, and every pushed point is merged into the published
\* sequence exactly once (it is in the buffer until a tick takes it, and among
\* the drained points, in push order, from then on).
C13_DrainExactlyOnce == []C13_Accounted /\ [][C13_TickClears]_vars

\* Two ticks have drained channel 0, more than 100 points in all, and new
\* points are waiting in the buffer.
C13_Witness ==
    /\ Drained(0) > 100 /\ Len(Published(0)) = 100
    /\ Len(Buffered(0)) > 0
    /\ Len(pushed[0]) = Drained(0) + Len(Buffered(0))

(***************************************************************************)
(* De-interleaving.                                                        *)
(***************************************************************************)
\* A step of the monitor callback's data branch; received' is the value it
\* was handed and the values the decoder returned for it.
NotifyStep == delivered' = delivered + 1

BufferedIn(buffers, k) == IF k \in DOMAIN buffers THEN buffers[k] ELSE <<>>

\* The channels outside `touched` are the same channels with the same points.
OthersUntouched(touched) ==
    /\ DOMAIN dataBuffers' \ touched = DOMAIN dataBuffers \ touched
    /\ \A k \in DOMAIN dataBuffers \ touched : dataBuffers'[k] = dataBuffers[k]

\* C14: a frame that decodes to exactly six values v0..v5 appends v0 then v3
\* to channel 0, v1 then v4 to channel 1, v2 then v5 to channel 2, and
\* touches no other channel.
C14_SixValueLayout ==
    [][(NotifyStep /\ Len(received'.values) = 6) =>
          LET v == received'.values
          IN  /\ {0, 1, 2} \subseteq DOMAIN dataBuffers'
              /\ dataBuffers'[0] = BufferedIn(dataBuffers, 0) \o <<v[1], v[4]>>
              /\ dataBuffers'[1] = BufferedIn(dataBuffers, 1) \o <<v[2], v[5]>>
              /\ dataBuffers'[2] = BufferedIn(dataBuffers, 2) \o <<v[3], v[6]>>
              /\ OthersUntouched({0, 1, 2})]_vars

\* The packet 8E 02 0064 00C8 012C 0065 00C9 012D arrived on empty buffers.
C14_Witness ==
    /\ received.bytes = <<142, 2, 0, 100, 0, 200, 1, 44, 0, 101, 0, 201, 1, 45>>
    /\ received.values = <<100, 200, 300, 101, 201, 301>>
    /\ DOMAIN dataBuffers = {0, 1, 2}
    /\ dataBuffers[0] = <<100, 101>>
    /\ dataBuffers[1] = <<200, 201>>
    /\ dataBuffers[2] = <<300, 301>>

\* C15: a frame that decodes to n values, n > 0 and n # 6, appends value i to
\* channel i for every i in 0..n-1, one point per channel, and touches no
\* channel n or above; n alone selects the layout.
C15_GenericLayout ==
    [][(NotifyStep /\ Len(received'.values) > 0 /\ Len(received'.values) # 6) =>
          LET v == received'.values
              n == Len(v)
          IN  /\ 0..(n - 1) \subseteq DOMAIN dataBuffers'
              /\ \A i \in 0..(n - 1) :
                     dataBuffers'[i] = BufferedIn(dataBuffers, i) \o <<v[i + 1]>>
              /\ OthersUntouched(0..(n - 1))]_vars

\* A frame of seven values arrived after a frame of another length: channel 6
\* holds the seventh value only, channel 0 holds a point of each frame.
C15_Witness ==
    /\ Len(received.values) = 7 /\ delivered = 2
    /\ DOMAIN dataBuffers = 0..6
    /\ dataBuffers[6] = <<received.values[7]>>
    /\ Len(dataBuffers[0]) = 2 /\ dataBuffers[0][2] = received.values[1]

\* C16: a frame that decodes to no value is a no-op: no channel is created,
\* no buffer changes, and the published snapshot and the session state stay.
C16_EmptyFrameNoOp ==
    [][(NotifyStep /\ received'.values = <<>>) =>
          UNCHANGED <<dataBuffers, channelData, status, device, hs, st>>]_vars

\* A value of three bytes, header included, arrived while channel buffers held
\* points: nothing was pushed.
C16_Witness ==
    /\ delivered = 2 /\ Len(received.bytes) = 3 /\ received.values = <<>>
    /\ DOMAIN dataBuffers # {} /\ \A k \in DOMAIN dataBuffers : dataBuffers[k] # <<>>
    /\ \A k \in DOMAIN pushed : Len(pushed[k]) = Len(Buffered(k))

(***************************************************************************)
(* The decoder, on the value the monitor callback was last handed.         *)
(***************************************************************************)
HasHeader(b) == Len(b) > 0 /\ b[1] = 142

\* The big-endian 16-bit value whose high byte is the byte of b at offset
\* `at` (counted from 0).
UInt16BEAt(b, at) == 256 * b[at + 1] + b[at + 2]

\* C17: a value of at least 14 bytes that starts with 0x8E decodes to one
\* 16-bit value for every two bytes after the header, six or more; the first
\* six are the big-endian values of bytes 2..13; and they are six exactly when
\* the value has 14 or 15 bytes.
C17_DecodeLongFrame ==
    LET b == received.bytes
        v == received.values
    IN  (Len(b) >= 14 /\ HasHeader(b)) =>
            /\ Len(v) = (Len(b) - 2) \div 2
            /\ Len(v) >= 6
            /\ \A k \in 0..5 : v[k + 1] = UInt16BEAt(b, 2 + 2 * k)
            /\ (Len(v) = 6 <=> Len(b) \in {14, 15})

\* A value of 16 bytes with header decoded to seven values.
C17_Witness ==
    /\ Len(received.bytes) = 16 /\ HasHeader(received.bytes)
    /\ Len(received.values) = 7
    /\ received.values[1] = UInt16BEAt(received.bytes, 2)

\* C17 as stated: a value of at least 14 bytes that starts with 0x8E decodes
\* to exactly six values, the big-endian values of bytes 2..13.
C17_ExactlySix ==
    LET b == received.bytes
        v == received.values
    IN  (Len(b) >= 14 /\ HasHeader(b)) =>
            /\ Len(v) = 6
            /\ \A k \in 0..5 : v[k + 1] = UInt16BEAt(b, 2 + 2 * k)

\* A value shorter than the smallest frame that carries a sample.
TooShort(b) == Len(b) <= 1 \/ (HasHeader(b) /\ Len(b) < 4)

\* C18: a value shorter than the minimum viable frame (no byte, one byte, a
\* header followed by fewer than two bytes) decodes to the empty sequence:
\* the decoder returns, and returns no sample.
C18_ShortFrameEmpty ==
    TooShort(received.bytes) => received.values = <<>>

\* A header followed by one byte was decoded.
C18_Witness ==
    /\ delivered > 0
    /\ Len(received.bytes) = 3 /\ HasHeader(received.bytes)
    /\ received.values = <<>>

\* C19: with offset 2 for a value that starts with 0x8E and 0 otherwise, the
\* decoder returns max(0, floor((len - offset) / 2)) values, the k-th being
\* 256 * b[offset + 2k] + b[offset + 2k + 1], each in 0..65535; a last byte
\* without partner is dropped.
C19_DecodeFormula ==
    LET b == received.bytes
        v == received.values
        offset == IF HasHeader(b) THEN 2 ELSE 0
        n == IF Len(b) < offset THEN 0 ELSE (Len(b) - offset) \div 2
    IN  /\ Len(v) = n
        /\ \A k \in 0..(n - 1) :
               /\ v[k + 1] = UInt16BEAt(b, offset + 2 * k)
               /\ v[k + 1] \in 0..65535

\* A value of 17 bytes with header decoded to seven values: the 17th byte
\* was dropped.
C19_Witness ==
    /\ Len(received.bytes) = 17 /\ HasHeader(received.bytes)
    /\ Len(received.values) = 7
    /\ received.values[7] = UInt16BEAt(received.bytes, 14)

(***************************************************************************)
(* The command encoders.                                                   *)
(***************************************************************************)
\* C20: for every mode that is a byte and either simulation flag,
\* buildSysSettingCmd returns exactly 6 bytes: 0x08, the mode, ASCII "200"
\* (0x32 0x30 0x30), and 0x31 when simulated, 0x30 when not.
C20_SysSettingFrame ==
    (encoded.fn = "buildSysSettingCmd" /\ encoded.done /\ encoded.code \in 0..255) =>
        LET frame == Base64Decode(encoded.out)
        IN  /\ Len(frame) = 6
            /\ frame[1] = 8
            /\ frame[2] = encoded.code
            /\ frame[3] = 50 /\ frame[4] = 48 /\ frame[5] = 48
            /\ frame[6] = IF encoded.sim THEN 49 ELSE 48

\* The call the handshake makes, buildSysSettingCmd(RAW_ONLY, "200", true),
\* returned 08 32 32 30 30 31.
C20_Witness ==
    /\ encoded.fn = "buildSysSettingCmd" /\ encoded.done
    /\ encoded.code = 50 /\ encoded.sim /\ encoded.freq = "200"
    /\ Base64Decode(encoded.out) = <<8, 50, 50, 48, 48, 49>>

\* C21: the system-setting frame does not depend on the rate argument: the
\* text a call returned is the text the call with the same mode and flag
\* returns for every other rate, and its rate bytes are ASCII "200".
C21_RateIgnored ==
    (encoded.fn = "buildSysSettingCmd" /\ encoded.done) =>
        /\ \A f \in Freqs :
               encoded.out = buildSysSettingCmd(encoded.code, f, encoded.sim)
        /\ encoded.code \in 0..255 =>
               SubSeq(Base64Decode(encoded.out), 3, 5) = <<50, 48, 48>>

\* A call with rate "100" returned a frame whose rate bytes are "200".
C21_Witness ==
    /\ encoded.fn = "buildSysSettingCmd" /\ encoded.done
    /\ encoded.freq = "100" /\ encoded.code = 50
    /\ SubSeq(Base64Decode(encoded.out), 3, 5) = <<50, 48, 48>>

\* C22: for every command code c in 0..255 buildSimpleCmd(c) is the text of
\* a frame of exactly one byte, and the byte read back from the text is c.
C22_SimpleRoundTrip ==
    (encoded.fn = "buildSimpleCmd" /\ encoded.done /\ encoded.code \in 0..255) =>
        /\ Len(Base64Decode(encoded.out)) = 1
        /\ Base64Decode(encoded.out)[1] = encoded.code

\* buildSimpleCmd(255) returned the text "/w==", which reads back as FF.
C22_Witness ==
    /\ encoded.fn = "buildSimpleCmd" /\ encoded.done /\ encoded.code = 255
    /\ encoded.out = <<63, 48, Pad, Pad>>
    /\ Base64Decode(encoded.out) = <<255>>

(***************************************************************************)
(* Disconnected.                                                           *)
(***************************************************************************)
\* C23: whenever the status is Disconnected no channel buffer holds a point
\* and the published snapshot has no channel: initially, right after a stop,
\* and in every later state up to the next connect intent, notifications
\* delivered after the stop included.
C23_DisconnectedIsEmpty ==
    status = "Disconnected" =>
        /\ channelData = <<>>
        /\ \A k \in DOMAIN dataBuffers : dataBuffers[k] = <<>>

(***************************************************************************)
(* Ingest and publisher side by side.                                      *)
(***************************************************************************)
\* C24: what a tick drains from a channel is a contiguous run of the
\* channel's push history, in push order: it starts right after the points
\* drained before and ends with the last point pushed before the tick.
C24_DrainIsContiguousRun ==
    [][TickStep =>
          \A k \in DOMAIN dataBuffers :
              LET run == dataBuffers[k]
              IN  /\ k \in DOMAIN pushed
                  /\ Drained(k) + Len(run) = Len(pushed[k])
                  /\ \A i \in 1..Len(run) : run[i] = pushed[k][Drained(k) + i]
                  /\ k \in DOMAIN drained' /\ drained'[k] = Len(pushed[k])]_vars

\* Two packets of six values were pushed and drained: the four points of
\* channel 0 are published in push order.
C24_Witness ==
    /\ delivered = 2 /\ 0 \in DOMAIN pushed /\ Len(pushed[0]) = 4
    /\ Drained(0) = 4 /\ Buffered(0) = <<>>
    /\ Published(0) = pushed[0]
    /\ pushed[0][1] # pushed[0][2]

\* Whether the callback can run does not depend on the value it is handed:
\* the two short values of Payloads stand for all.
C25_Deliverable ==
    \A t \in Tasks :
        monitor[t] = "active" => \A b \in {<<0, 7>>, <<142>>} : ENABLED Notify(t, b)

C25_OneStep ==
    NotifyStep =>
        \A k \in DOMAIN pushed' :
            BufferedIn(dataBuffers', k)
                = SubSeq(pushed'[k], Drained(k) + 1, Len(pushed'[k]))

\* C25: the ingest path never waits for the publisher: while a subscription
\* is active a notification can be delivered whatever the buffers and the
\* published snapshot hold, and the one step that delivers it leaves all its
\* points in the buffers.
C25_IngestNeverBlocks == []C25_Deliverable /\ [][C25_OneStep]_vars

\* A subscription is active while points wait in a buffer for the next tick.
C25_Witness ==
    /\ \E t \in Tasks : monitor[t] = "active"
    /\ Buffered(0) # <<>> /\ delivered > 0


(***************************************************************************)
(* The published snapshot as the consumer sees it.                         *)
(***************************************************************************)
\* A channel is published only when a point was pushed to it since the last
\* disconnect, and every published point is an unsigned 16-bit integer.
C26_SparseTyped ==
    \A k \in DOMAIN channelData :
        /\ k \in Nat
        /\ k \in DOMAIN pushed /\ Len(pushed[k]) >= 1
        /\ \A i \in 1..Len(channelData[k]) : channelData[k][i] \in 0..65535

\* A published channel is still published after the step, unless the step is
\* the disconnect that empties the snapshot.
C26_IdsStay ==
    \A k \in DOMAIN channelData :
        \/ k \in DOMAIN channelData'
        \/ channelData' = <<>> /\ status' = "Disconnected"

C27_AnomalyIsNotAnError ==
    [][(NotifyStep /\ status = "Streaming" /\ received'.values = <<>>) =>
          /\ status' = "Streaming"
          /\ dataBuffers' = dataBuffers
          /\ channelData' = channelData
          /\ \A t \in Tasks :
                 monitor[t] = "active" =>
                     monitor'[t] = "active" /\ hs'[t].dev \in connected']_vars

\* The first value decoded to nothing and the second, 00 07, was taken: its
\* one point is all that was ever pushed.
C27_Witness ==
    /\ status = "Streaming" /\ delivered = 2
    /\ received.bytes = <<0, 7>> /\ received.values = <<7>>
    /\ DOMAIN pushed = {0} /\ pushed[0] = <<7>>
    /\ monitor[1] = "active"

(***************************************************************************)
(* From the buffers to the snapshot, under a timer that keeps firing.      *)
(***************************************************************************)
PushedTo(k) == IF k \in DOMAIN pushed THEN pushed[k] ELSE <<>>

\* Points waiting in a buffer are drained at some later moment.
C28_Drains ==
    \A k \in 0..2 :
        (Buffered(k) # <<>>) ~> (Buffered(k) = <<>> /\ Drained(k) = Len(PushedTo(k)))

\* The tick that drains a buffer publishes every point the buffer held.
C28_MergedWhole ==
    TickStep =>
        \A k \in DOMAIN dataBuffers :
            \A i \in 1..Len(dataBuffers[k]) :
                \E j \in 1..Len(Published(k)') : Published(k)'[j] = dataBuffers[k][i]

\* C28: with a timer that keeps firing and no stop in between, every point
\* pushed into a channel buffer gets into a published snapshot: a non-empty
\* buffer leads to a state in which it has been drained, and the tick that
\* drains it merges all its points into the published sequence.
C28_PushedIsPublished == C28_Drains /\ [][C28_MergedWhole]_vars

(***************************************************************************)
(* The end of a handshake, when the transport settles every operation.     *)
(***************************************************************************)
IntermediateStatus ==
    {"Connecting...", "Discovering Services...", "Configuring Settings...",
     "Verifying Parameters...", "Subscribing to Stream...", "Starting Scan..."}

\* A handshake in progress comes to its end, and the status does not stay
\* an intermediate one.
C29_Ends ==
    /\ \A t \in Tasks : InProgress(t) ~> hs[t].pc \in {"done", "failed"}
    /\ (status \in IntermediateStatus) ~> (status \notin IntermediateStatus)

\* The step that ends a handshake sets Streaming after six successful
\* operations, or Error after an operation that failed.
C29_EndStep ==
    \A t \in Tasks :
        (InProgress(t) /\ ~InProgress(t)') =>
            LET ops == hs'[t].ops
            IN  \/ /\ hs'[t].pc = "done" /\ status' = "Streaming"
                   /\ Len(ops) = 6 /\ \A i \in 1..6 : ops[i].res = "ok"
                \/ /\ hs'[t].pc = "failed" /\ status' = "Error"
                   /\ Len(ops) \in 1..6 /\ ops[Len(ops)].res = "fail"
                   /\ \A i \in 1..(Len(ops) - 1) : ops[i].res = "ok"

\* C29: every handshake terminates: when each transport operation resolves
\* or fails at some time, connectAndStart ends with the status Streaming,
\* all six operations having succeeded, or with Error, an operation having
\* failed, and the status does not stay for ever Connecting, Discovering,
\* Configuring, Verifying, Subscribing or Starting.
C29_HandshakeTerminates == C29_Ends /\ [][C29_EndStep]_vars

\* The first handshake failed at its third operation, the second one went
\* through all six.
C29_Witness ==
    /\ hs[1].pc = "failed" /\ Len(hs[1].ops) = 3
    /\ hs[2].pc = "done" /\ Len(hs[2].ops) = 6
    /\ status = "Streaming"

(***************************************************************************)
(* After the stop.                                                         *)
(***************************************************************************)
\* C30: once a stop has completed with the status Disconnected, the status
\* stays Disconnected until the next connect intent: the only step that
\* takes the status away from Disconnected is an invocation of
\* connectAndStart, and no step of a handshake that was already in progress
\* does.
C30_DisconnectedUntilConnect ==
    [][(status = "Disconnected" /\ status' # "Disconnected") =>
          \E t \in Tasks : hs[t].pc = "idle" /\ hs'[t].pc = "connect"]_vars

(***************************************************************************)
(* The status against the device handle and the subscriptions.             *)
(***************************************************************************)
\* C31: while the status is Streaming a device handle is held and a
\* notification subscription was established for that device; while the
\* status is Disconnected no device handle is held.
C31_StatusMatchesHandle ==
    /\ status = "Streaming" =>
           /\ device # NoDevice
           /\ \E t \in Tasks : hs[t].dev = device /\ monitor[t] # "none"
    /\ status = "Disconnected" => device = NoDevice

(***************************************************************************)
(* A handshake that fails on an open connection.                           *)
(***************************************************************************)
\* The step in which an operation after the connect fails: Error is set, the
\* handle and the open connections are as before, and no transport call is
\* made, by the handshake or by a stop.
C32_FailureStep ==
    \A t \in Tasks :
        (InProgress(t) /\ hs'[t].pc = "failed" /\ Len(hs'[t].ops) >= 2) =>
            /\ status' = "Error"
            /\ device' = device
            /\ connected' = connected
            /\ st' = st
            /\ Len(hs'[t].ops) = Len(hs[t].ops)
            /\ \A i \in 1..Len(hs'[t].ops) : hs'[t].ops[i].op # "cancel"

\* A connection is closed, and a held handle let go, only by the step that
\* ends a stop.
C32_OnlyStopDisconnects ==
    (connected \ connected' # {} \/ (device # NoDevice /\ device' = NoDevice)) =>
        \E s \in Stops : st[s].pc = "cancel" /\ st'[s].pc = "done"

\* C32: a handshake that fails after its connect succeeded requests no
\* teardown: the failing step leaves the device handle set and the
\* connection open, with the status Error, and only a stop closes a
\* connection or lets go of the handle.
C32_FailureKeepsConnection ==
    [][C32_FailureStep /\ C32_OnlyStopDisconnects]_vars

\* The discovery on d1 failed: the status is Error, d1 is held and its
\* connection is open, and no stop has been invoked.
C32_Witness ==
    /\ hs[1].pc = "failed" /\ Len(hs[1].ops) = 2 /\ hs[1].ops[2].res = "fail"
    /\ status = "Error" /\ device = "d1" /\ "d1" \in connected
    /\ \A s \in Stops : st[s].pc = "idle"

(***************************************************************************)
(* A stop with no device held.                                             *)
(***************************************************************************)
\* A stop that found no device has ended at once and has made no call.
C33_NoCallInv ==
    \A s \in Stops :
        (st[s].pc # "idle" /\ st[s].dev = NoDevice) => st[s].pc = "done" /\ st[s].ops = <<>>

C33_NoOpStep ==
    \A s \in Stops :
        (st[s].pc = "idle" /\ st'[s].pc # "idle" /\ device = NoDevice) =>
            /\ st'[s].pc = "done" /\ st'[s].ops = <<>>
            /\ UNCHANGED <<status, device, channelData, dataBuffers, hs, connected,
                           monitor>>

\* C33: stopAndDisconnect invoked while no device handle is held does
\* nothing: it makes no transport call and leaves the status, the channel
\* buffers and the published snapshot as they were.
C33_StopWithoutDeviceIsNoOp == []C33_NoCallInv /\ [][C33_NoOpStep]_vars

\* A second stop, invoked after the first had let go of the handle, while
\* points of the other device's monitor were buffered: they are still there.
C33_Witness ==
    /\ st[1].pc = "done" /\ st[1].dev # NoDevice
    /\ st[2].pc = "done" /\ st[2].dev = NoDevice /\ st[2].ops = <<>>
    /\ status = "Disconnected" /\ device = NoDevice
    /\ Buffered(0) # <<>>

(***************************************************************************)
(* Whole packets only, when every frame carries six values.                *)
(***************************************************************************)
\* C34: de-interleaving a packet is atomic with respect to the ticks: with
\* frames of six values only, the buffers of channels 0, 1 and 2 hold the
\* same number of points in every state, two for each packet since the last
\* drain, and the numbers of points drained so far from the three channels
\* are equal and even: no tick publishes the first sub-sample of a packet
\* without the second.
C34_PacketsWhole ==
    /\ Len(Buffered(0)) = Len(Buffered(1)) /\ Len(Buffered(1)) = Len(Buffered(2))
    /\ Drained(0) = Drained(1) /\ Drained(1) = Drained(2)
    /\ Drained(0) % 2 = 0
    /\ Drained(0) + Len(Buffered(0)) = 2 * delivered

\* Three packets arrived, with a tick after the second: four points of each
\* channel are published and two are buffered.
C34_Witness ==
    /\ delivered = 3
    /\ Drained(0) = 4 /\ Drained(1) = 4 /\ Drained(2) = 4
    /\ Len(Buffered(0)) = 2 /\ Len(Buffered(1)) = 2 /\ Len(Buffered(2)) = 2
    /\ Len(Published(0)) = 4 /\ Len(Published(2)) = 4

(***************************************************************************)
(* The published window, wherever the ticks fall.                          *)
(***************************************************************************)
\* What is published of a channel is the last 100 of the points drained from
\* it so far, whatever the ticks that drained them.
C35_Window ==
    \A k \in 0..2 :
        Published(k) = LastN(SubSeq(PushedTo(k), 1, Drained(k)), 100)

\* Merging the buffered points in two ticks, split anywhere, gives what
\* merging them in one tick gives.
C35_SplitAnywhere ==
    \A k \in 0..2 :
        \A n \in 0..Len(Buffered(k)) :
            LET x == SubSeq(Buffered(k), 1, n)
                y == SubSeq(Buffered(k), n + 1, Len(Buffered(k)))
            IN  appendBuffer(appendBuffer(Published(k), x, DefaultMaxSize), y,
                             DefaultMaxSize)
                    = appendBuffer(Published(k), x \o y, DefaultMaxSize)

\* C35: the published window does not depend on when the ticks come: once
\* every buffer has been drained the published sequence of a channel is the
\* last 100 points pushed to it in the session, in arrival order;
\* equivalently appendBuffer(appendBuffer(b, x), y) = appendBuffer(b, x ++ y).
C35_WindowIndependentOfTicks ==
    /\ C35_Window
    /\ (\A k \in 0..2 : Buffered(k) = <<>>) =>
           \A k \in 0..2 : Published(k) = LastN(PushedTo(k), 100)
    /\ C35_SplitAnywhere

\* 116 packets were pushed and all of them drained: the last 100 of the 232
\* points of channel 0 are published.
C35_Witness ==
    /\ delivered = 116 /\ Drained(0) = 232 /\ Buffered(0) = <<>>
    /\ Len(Published(0)) = 100
    /\ Published(0)[100] = PushedTo(0)[232] /\ Published(0)[1] = PushedTo(0)[133]

(***************************************************************************)
(* Subscriptions over several connect attempts.                            *)
(***************************************************************************)
\* C36: at most one notification subscription is active at any time, over
\* any number of connect attempts, so that a notification is ingested by
\* one callback only.
C36_OneSubscription ==
    Cardinality({t \in Tasks : monitor[t] = "active"}) <= 1

\* The first handshake had ended in Error, after its monitor was registered,
\* when the second one was started; both monitors are active.
C36_RetryKeepsOldMonitor ==
    /\ hs[1].pc = "failed" /\ Len(hs[1].ops) = 6
    /\ hs[2].pc = "done" /\ hs[2].dev = "d2"
    /\ monitor[1] = "active" /\ monitor[2] = "active"
    /\ "d1" \in connected /\ status = "Streaming"

(***************************************************************************)
(* A handshake and the sample data.                                        *)
(***************************************************************************)
\* C37: connectAndStart does not touch the sample data: no step of a
\* handshake, its invocation, its steps forward, its success and its
\* failure, changes a channel buffer or the published snapshot.
C37_HandshakeKeepsSamples ==
    [][hs' # hs => (dataBuffers' = dataBuffers /\ channelData' = channelData)]_vars

\* A second connect attempt, made with no stop after the first session had
\* published a packet, has failed after its connect: the packet is still
\* published.
C37_Witness ==
    /\ hs[1].pc = "done" /\ hs[2].pc = "failed" /\ Len(hs[2].ops) >= 2
    /\ \A s \in Stops : st[s].pc = "idle"
    /\ status = "Error"
    /\ DOMAIN channelData = {0, 1, 2} /\ Len(channelData[0]) = 2

(***************************************************************************)
(* The same payload with and without the header.                           *)
(***************************************************************************)
\* The big-endian 16-bit values of an even-length payload.
UInt16BEOf(p) == [i \in 1..(Len(p) \div 2) |-> UInt16BEAt(p, 2 * (i - 1))]

\* Second bytes of a header.
HeaderSeconds == {0, 12, 142, 255}

\* p decodes to its big-endian 16-bit values, and so does 8E t followed by
\* p, for every second header byte t.  p is the value the callback was last
\* handed, received.values what it decoded to.
Transparent(p) ==
    /\ received.values = UInt16BEOf(p)
    /\ \A t \in HeaderSeconds :
           parseNotification(Base64Encode(<<RES_SYS_UNSOLICITED, t>> \o p))
               = UInt16BEOf(p)

\* C38: header stripping is transparent for an even-length payload that does
\* not itself begin with 0x8E: it decodes to its big-endian 16-bit values,
\* the same samples as the same payload sent after the 2-byte header.
C38_HeaderTransparentUnlessMarker ==
    LET p == received.bytes
    IN  (Len(p) % 2 = 0 /\ (p = <<>> \/ p[1] # RES_SYS_UNSOLICITED)) => Transparent(p)

\* A headerless value of twelve bytes arrived and was decoded to six values.
C38_Witness ==
    /\ delivered > 0
    /\ Len(received.bytes) = 12 /\ received.bytes[1] = 0
    /\ Len(received.values) = 6 /\ received.values[1] = PatternByte(2)

\* C38 as stated, for every even-length payload.
C38_HeaderTransparent ==
    LET p == received.bytes
    IN  Len(p) % 2 = 0 => Transparent(p)

(***************************************************************************)
(* appendBuffer.                                                           *)
(***************************************************************************)
Min(a, b) == IF a < b THEN a ELSE b

C39_Result ==
    (encoded.fn = "appendBuffer" /\ encoded.done) =>
        LET all == encoded.currentBuffer \o encoded.newData
            n == Min(Len(all), encoded.maxSize)
        IN  /\ Len(encoded.out) = n
            /\ \A i \in 1..n : encoded.out[i] = all[Len(all) - n + i]
            /\ encoded.maxSize = 100 => encoded.out = LastN(all, WindowSize)

C39_InputsKept ==
    /\ encoded'.currentBuffer = encoded.currentBuffer
    /\ encoded'.newData = encoded.newData

\* C39: appendBuffer(currentBuffer, newData, maxSize) with maxSize >= 0
\* returns a sequence of min(len(currentBuffer) + len(newData), maxSize)
\* elements, the last that many of currentBuffer followed by newData, and
\* leaves both inputs as they were; with maxSize 100 it returns what the
\* publisher's [...prev, ...new].slice(-100) returns.
C39_AppendBuffer == []C39_Result /\ [][C39_InputsKept]_vars

\* 100 elements followed by 101 with maxSize 100: the result is the last 100
\* of the new ones.
C39_Witness ==
    /\ encoded.fn = "appendBuffer" /\ encoded.done /\ encoded.maxSize = 100
    /\ Len(encoded.currentBuffer) = 100 /\ Len(encoded.newData) = 101
    /\ Len(encoded.out) = 100 /\ encoded.out[1] = 1002 /\ encoded.out[100] = 1101

=============================================================================
